---- MODULE Spec2Model ----
(***************************************************************************)
(* Model of src/main.py: the ESP32 air-quality monitor.                    *)
(*                                                                         *)
(* The program is one sequential control loop (main.py:310-383).  One     *)
(* iteration ("tick") reads the DHT11, runs the GP2Y1010AU0F pulse cycle,  *)
(* reads the MQ-135, classifies, renders on the OLED and then runs the     *)
(* e-mail logic, which keeps two flags across iterations:                  *)
(*   initial_email_sent  (spec: initialSent)                               *)
(*   alert_email_sent    (spec: alertActive)                               *)
(* pc is the position of the loop inside the iteration.                    *)
(*                                                                         *)
(* Numbers.  The code computes in floating point.  The model computes the  *)
(* same expressions over exact rationals <<n, d>> (d > 0, lowest terms);  *)
(* none of the sampled ADC codes lies on a rounding tie of a comparison.   *)
(* math.pow is a library function: MathPow gives its domain errors and,    *)
(* for the sampled arguments, its value to five decimals.                  *)
(***************************************************************************)
EXTENDS Integers, Sequences, FiniteSets, TLC

VARIABLES
    pc,                  \* position inside the loop body
    initial_email_sent,  \* main.py:305
    alert_email_sent,    \* main.py:308
    temp, hum,           \* main.py:312-319
    led_power,           \* main.py:75-76, the emitter line (1 = off, active low)
    adc_value,           \* main.py:190, raw dust ADC code inside read_dust_sensor
    dust_density,        \* main.py:325
    dust_status,         \* main.py:326
    ppm,                 \* main.py:331
    gas_status,          \* main.py:332
    wifi_status,         \* main.py:335
    is_bad_air,          \* main.py:348
    err,                 \* the exception caught at main.py:381 ("none" if none)
    r0_clean_air,            \* main.py:43, the module global R0_CLEAN_AIR
    r0_calibration_complete, \* main.py:32, the global R0_CALIBRATION_COMPLETE
    Rs_arg,              \* main.py:233, argument of get_mq135_ppm called alone
    \* ---- observers (history of the run, not program state) ----
    ticks,               \* iterations started so far
    tickReports,         \* reports attempted in the current iteration, in order
    tickCleared,         \* alert_email_sent was reset in the current iteration
    tickConn,            \* results of wlan.isconnected() in the current iteration
    badRun,              \* the latest classified tick had bad air
    epDelivered,         \* AlertReports delivered in the current bad-air episode
    episodes,            \* bad-air episodes begun so far
    allGood,             \* every tick classified so far was GOOD and CLEAN
    nInit,               \* InitialReport attempts so far
    nAlert               \* AlertReport attempts so far

prog == <<pc, initial_email_sent, alert_email_sent, temp, hum, led_power,
          adc_value, dust_density, dust_status, ppm, gas_status, wifi_status,
          is_bad_air, err>>
obs == <<ticks, tickReports, tickCleared, tickConn, badRun, epDelivered,
         episodes, allGood, nInit, nAlert>>
\* the calibration configuration read by get_mq135_ppm, and its argument
cal == <<r0_clean_air, r0_calibration_complete, Rs_arg>>
vars == <<prog, obs, cal>>

----------------------------------------------------------------------------
(* Bounds of the model *)

MaxTicks == 4
LiveTicks == 2

\* raw MQ-135 codes sampled by the loop: both ends of the ADC range, the
\* spec's worked example, and the codes next to the two class changes
GasCodes == {0, 2000, 2780, 2781, 2982, 2983, 3276, 4095}
\* raw GP2Y1010AU0F codes sampled by the loop: clamped, last clamped, first
\* unclamped, last CLEAN, first DUSTY/MODERATE, full scale
DustCodes == {0, 720, 721, 1802, 1803, 4095}
TempVals == {25}
HumVals == {60}

----------------------------------------------------------------------------
(* Program constants, main.py:32-60 *)

R0_CALIBRATION_COMPLETE == TRUE
R0_CLEAN_AIR == <<10, 1>>
R_LOAD == <<10, 1>>
A == <<110, 1>>
B == <<-265, 100>>
VOLTAGE_RESOLUTION == <<33, 10>>
ADC_MAX == 4095
DUSTY_THRESHOLD == <<15, 100>>
SMOKE_THRESHOLD == <<50, 100>>

----------------------------------------------------------------------------
(* Exact rational arithmetic standing for the code's float arithmetic *)

\* The operations are functions so that an argument is evaluated once.
Rat == Int \X (Nat \ {0})

Abs(x) == IF x < 0 THEN -x ELSE x

GcdOf[a \in Nat, b \in Nat] == IF b = 0 THEN a ELSE GcdOf[b, a % b]
Gcd(a, b) == GcdOf[a, b]

NormOf[n \in Int, d \in Int \ {0}] ==
    LET g == Gcd(Abs(n), Abs(d))
        s == IF d < 0 THEN -1 ELSE 1
    IN  <<(s * n) \div g, (s * d) \div g>>
Norm(n, d) == NormOf[n, d]

RMulOf[x \in Rat, y \in Rat] ==
    LET g1 == Gcd(Abs(x[1]), y[2])
        g2 == Gcd(Abs(y[1]), x[2])
    IN  Norm((x[1] \div g1) * (y[1] \div g2), (x[2] \div g2) * (y[2] \div g1))
RMul(x, y) == RMulOf[x, y]
\* x / y for y # 0
RDiv(x, y) == RMul(x, Norm(y[2], y[1]))
RSubOf[x \in Rat, y \in Rat] ==
    LET g == Gcd(x[2], y[2])
    IN  Norm(x[1] * (y[2] \div g) - y[1] * (x[2] \div g), x[2] * (y[2] \div g))
RSub(x, y) == RSubOf[x, y]
RLtOf[x \in Rat, y \in Rat] == x[1] * y[2] < y[1] * x[2]
RLt(x, y) == RLtOf[x, y]
RLeqOf[x \in Rat, y \in Rat] == x[1] * y[2] <= y[1] * x[2]
RLeq(x, y) == RLeqOf[x, y]
RInt(k) == <<k, 1>>
Zero == <<0, 1>>

----------------------------------------------------------------------------
(* Sensor processing functions, main.py:178-252 *)

\* main.py:198-207: raw code -> voltage -> density, clamped at 0
DustVoltage(adc) == RMul(RInt(adc), RDiv(VOLTAGE_RESOLUTION, RInt(ADC_MAX)))
ClampOf[d \in Rat] == IF RLt(d, Zero) THEN Zero ELSE d
\* Mutant of DustDensity: the linear model without the clamp.
DustDensity_NoClamp(adc) ==
    RSub(RMul(<<172, 1000>>, DustVoltage(adc)), <<999, 10000>>)

DustDensity(adc) ==
    ClampOf[RSub(RMul(<<172, 1000>>, DustVoltage(adc)), <<999, 10000>>)]

\* Mutant of classify_dust_quality: the two upper levels are exchanged.
classify_dust_quality_Swapped(density) ==
    IF RLeq(SMOKE_THRESHOLD, density) THEN "DUSTY/MODERATE"
    ELSE IF RLeq(DUSTY_THRESHOLD, density) THEN "SMOKE/CRITICAL"
    ELSE "CLEAN"

\* main.py:212-221
classify_dust_quality(density) ==
    IF RLeq(SMOKE_THRESHOLD, density) THEN "SMOKE/CRITICAL"
    ELSE IF RLeq(DUSTY_THRESHOLD, density) THEN "DUSTY/MODERATE"
    ELSE "CLEAN"

\* main.py:223-231
calculate_Rs(raw_adc) ==
    LET voltage == RMul(RInt(raw_adc), RDiv(VOLTAGE_RESOLUTION, RInt(ADC_MAX)))
    IN  IF RLt(Zero, voltage)
        THEN RMul(R_LOAD, RSub(RDiv(VOLTAGE_RESOLUTION, voltage), RInt(1)))
        ELSE Zero

\* math.pow(x, y) for the exponent B = -2.65 (library function).  A zero
\* base with a negative exponent and a negative base with a fractional
\* exponent raise ValueError("math domain error"); for a positive base the
\* value is positive.  PowTable holds floor(10^5 * x^(-2.65)) for the
\* values of Rs/R0 that the sampled codes produce.
PowTable(x) ==
    CASE x = <<419, 400>>   -> 88428      \* raw 2000
      [] x = <<263, 556>>   -> 727051     \* raw 2780
      [] x = <<146, 309>>   -> 729213     \* raw 2781
      [] x = <<53, 142>>    -> 1362175    \* raw 2982
      [] x = <<1112, 2983>> -> 1366637    \* raw 2983
      [] x = <<1, 4>>       -> 3939662    \* raw 3276
MathPow(x, y) ==
    IF x[1] = 0 /\ y[1] < 0 THEN [ok |-> FALSE, val |-> Zero]
    ELSE IF x[1] < 0 /\ y[2] # 1 THEN [ok |-> FALSE, val |-> Zero]
    ELSE [ok |-> TRUE, val |-> Norm(PowTable(x), 100000)]

\* Mutant of get_mq135_ppm: the guard needs both conditions.
get_mq135_ppm_GuardBoth(Rs) ==
    IF RLeq(r0_clean_air, Zero) /\ ~r0_calibration_complete
    THEN [ok |-> TRUE, val |-> Zero]
    ELSE IF r0_clean_air[1] = 0 THEN [ok |-> FALSE, val |-> Zero]
    ELSE LET Rs_R0 == RDiv(Rs, r0_clean_air)
             p == MathPow(Rs_R0, Norm(B[1], B[2]))
         IN  IF p.ok THEN [ok |-> TRUE, val |-> RMul(A, p.val)]
             ELSE [ok |-> FALSE, val |-> Zero]

\* main.py:233-243.  ok = FALSE stands for the exception leaving the function.
\* The function reads the two calibration globals.
get_mq135_ppm(Rs) ==
    IF RLeq(r0_clean_air, Zero) \/ ~r0_calibration_complete
    THEN [ok |-> TRUE, val |-> Zero]
    ELSE LET Rs_R0 == RDiv(Rs, r0_clean_air)
             p == MathPow(Rs_R0, Norm(B[1], B[2]))
         IN  IF p.ok THEN [ok |-> TRUE, val |-> RMul(A, p.val)]
             ELSE [ok |-> FALSE, val |-> Zero]

\* Mutant of classify_gas_quality: the bounds are exclusive.
classify_gas_quality_Strict(p) ==
    IF RLt(p, RInt(800)) THEN "GOOD"
    ELSE IF RLt(p, RInt(1500)) THEN "MODERATE"
    ELSE "BAD"

\* main.py:245-252
classify_gas_quality(p) ==
    IF RLeq(p, RInt(800)) THEN "GOOD"
    ELSE IF RLeq(p, RInt(1500)) THEN "MODERATE"
    ELSE "BAD"

\* main.py:348
IsBadAir(gas, dust) == gas = "BAD" \/ dust = "SMOKE/CRITICAL"

----------------------------------------------------------------------------
(* The environment: what the hardware and the collaborators may return.    *)
(*   conn  results of wlan.isconnected()                                    *)
(*   send  results of send_email (TRUE = HTTP 200; FALSE = any other status *)
(*         or an exception, which send_email catches itself, main.py:170)   *)
(*   disp  outcomes of an OLED call (TRUE = returns, FALSE = raises)        *)
(*   dht   outcomes of the DHT11 read: "ok", "OSError" (bus timeout, caught *)
(*         at main.py:320) or "Exception" (the driver's checksum error,     *)
(*         which is not an OSError)                                         *)
(*   gas, dust  raw ADC codes                                               *)
(*   horizon, cut  the run-history counters stop at horizon; with cut the   *)
(*         run itself ends after horizon iterations                         *)

EnvAll == [conn |-> BOOLEAN, send |-> BOOLEAN, disp |-> BOOLEAN,
           dht |-> {"ok", "OSError", "Exception"},
           gas |-> GasCodes, dust |-> DustCodes,
           horizon |-> MaxTicks, cut |-> TRUE]
\* connectivity always up, every delivery confirmed
EnvUp == [EnvAll EXCEPT !.conn = {TRUE}, !.send = {TRUE}]
\* the transport fails on every call
EnvFail == [EnvAll EXCEPT !.send = {FALSE}]

SatInc(x, E) == IF x < E.horizon THEN x + 1 ELSE x

----------------------------------------------------------------------------
(* State at the entry of the main loop, main.py:296-310 *)

Init ==
    /\ pc = "top"
    /\ initial_email_sent = FALSE
    /\ alert_email_sent = FALSE
    /\ temp = 0 /\ hum = 0
    /\ led_power = 1
    /\ adc_value = 0
    /\ dust_density = Zero /\ dust_status = "unset"
    /\ ppm = Zero /\ gas_status = "unset"
    /\ wifi_status = "unset"
    /\ is_bad_air = FALSE
    /\ err = "none"
    /\ ticks = 0 /\ tickReports = <<>> /\ tickCleared = FALSE /\ tickConn = {}
    /\ badRun = FALSE /\ epDelivered = 0 /\ episodes = 0 /\ allGood = TRUE
    /\ nInit = 0 /\ nAlert = 0
    /\ r0_clean_air = R0_CLEAN_AIR
    /\ r0_calibration_complete = R0_CALIBRATION_COMPLETE
    /\ Rs_arg = Zero

\* an exception leaves the try block: control goes to main.py:381
Raise(e) == pc' = "except" /\ err' = e

----------------------------------------------------------------------------
(* One iteration of the main loop, main.py:310-383 *)

\* main.py:311-322.  A new iteration starts; temp and hum are zeroed and the
\* DHT11 is read.  The other locals still hold the previous iteration's
\* values in the program; every one of them is assigned before it is read,
\* so the model clears them here.
ReadDHT(E) ==
    /\ pc = "top"
    /\ E.cut => ticks < E.horizon
    /\ ticks' = SatInc(ticks, E)
    /\ tickReports' = <<>> /\ tickCleared' = FALSE /\ tickConn' = {}
    /\ adc_value' = 0 /\ dust_density' = Zero /\ dust_status' = "unset"
    /\ ppm' = Zero /\ gas_status' = "unset" /\ wifi_status' = "unset"
    /\ is_bad_air' = FALSE
    /\ \E r \in E.dht :
         CASE r = "ok" ->
                /\ temp' \in TempVals /\ hum' \in HumVals
                /\ pc' = "dust_on" /\ err' = "none"
           [] r = "OSError" ->
                /\ temp' = 0 /\ hum' = 0
                /\ pc' = "dust_on" /\ err' = "none"
           [] r = "Exception" ->
                /\ temp' = 0 /\ hum' = 0
                /\ Raise("Exception")
    /\ UNCHANGED cal
    /\ UNCHANGED <<initial_email_sent, alert_email_sent, led_power, badRun,
                   epDelivered, episodes, allGood, nInit, nAlert>>

\* main.py:184-187 (read_dust_sensor): emitter on, settle wait
LedOn ==
    /\ pc = "dust_on"
    /\ led_power' = 0
    /\ pc' = "dust_read"
    /\ UNCHANGED cal
    /\ UNCHANGED <<initial_email_sent, alert_email_sent, temp, hum, adc_value,
                   dust_density, dust_status, ppm, gas_status, wifi_status,
                   is_bad_air, err, obs>>

\* main.py:190: one ADC conversion
AdcRead(E) ==
    /\ pc = "dust_read"
    /\ adc_value' \in E.dust
    /\ pc' = "dust_off"
    /\ UNCHANGED cal
    /\ UNCHANGED <<initial_email_sent, alert_email_sent, temp, hum, led_power,
                   dust_density, dust_status, ppm, gas_status, wifi_status,
                   is_bad_air, err, obs>>

\* Mutant of LedOff: the emitter is left on when the function returns.
LedOff_LeftOn ==
    /\ pc = "dust_off"
    /\ dust_density' = DustDensity(adc_value)
    /\ dust_status' = classify_dust_quality(DustDensity(adc_value))
    /\ pc' = "gas"
    /\ UNCHANGED cal
    /\ UNCHANGED <<initial_email_sent, alert_email_sent, temp, hum, adc_value,
                   led_power, ppm, gas_status, wifi_status, is_bad_air, err,
                   obs>>

\* main.py:193-210 and 325-326: emitter off, rest wait, conversion, classify
LedOff ==
    /\ pc = "dust_off"
    /\ led_power' = 1
    /\ dust_density' = DustDensity(adc_value)
    /\ dust_status' = classify_dust_quality(DustDensity(adc_value))
    /\ pc' = "gas"
    /\ UNCHANGED cal
    /\ UNCHANGED <<initial_email_sent, alert_email_sent, temp, hum, adc_value,
                   ppm, gas_status, wifi_status, is_bad_air, err, obs>>

\* main.py:329-332.  With both classifications known the tick has or has
\* not bad air; the episode observers follow it.
ReadGas(E) ==
    /\ pc = "gas"
    /\ \E mq_raw \in E.gas :
         LET r == get_mq135_ppm(calculate_Rs(mq_raw))
             g == classify_gas_quality(r.val)
             bad == IsBadAir(g, dust_status)
         IN  IF r.ok
             THEN /\ ppm' = r.val
                  /\ gas_status' = g
                  /\ pc' = "disp" /\ err' = err
                  /\ badRun' = bad
                  /\ episodes' = IF bad /\ ~badRun THEN SatInc(episodes, E)
                                 ELSE episodes
                  /\ epDelivered' = IF bad THEN epDelivered ELSE 0
                  /\ allGood' = (allGood /\ g = "GOOD" /\ dust_status = "CLEAN")
             ELSE /\ Raise("ValueError")
                  /\ UNCHANGED <<ppm, gas_status, badRun, episodes,
                                 epDelivered, allGood>>
    /\ UNCHANGED cal
    /\ UNCHANGED <<initial_email_sent, alert_email_sent, temp, hum, led_power,
                   adc_value, dust_density, dust_status, wifi_status,
                   is_bad_air, ticks, tickReports, tickCleared, tickConn,
                   nInit, nAlert>>

\* main.py:335-344: connectivity label, display_readings, console output
Display(E) ==
    /\ pc = "disp"
    /\ \E c \in E.conn :
         /\ wifi_status' = IF c THEN "ON" ELSE "OFF"
         /\ tickConn' = tickConn \cup {c}
    /\ \E ok \in E.disp :
         IF ok THEN pc' = "A_cond" /\ err' = err ELSE Raise("OSError")
    /\ UNCHANGED cal
    /\ UNCHANGED <<initial_email_sent, alert_email_sent, temp, hum, led_power,
                   adc_value, dust_density, dust_status, ppm, gas_status,
                   is_bad_air, ticks, tickReports, tickCleared, badRun,
                   epDelivered, episodes, allGood, nInit, nAlert>>

\* Mutant of EmailA_Cond: branch A does not test initial_email_sent.
EmailA_Cond_NoFlagTest(E) ==
    /\ pc = "A_cond"
    /\ is_bad_air' = IsBadAir(gas_status, dust_status)
    /\ \E c \in E.conn :
         /\ tickConn' = tickConn \cup {c}
         /\ pc' = IF c THEN "A_disp" ELSE "B_cond"
    /\ UNCHANGED cal
    /\ UNCHANGED <<initial_email_sent, alert_email_sent, temp, hum, led_power,
                   adc_value, dust_density, dust_status, ppm, gas_status,
                   wifi_status, err, ticks, tickReports, tickCleared, badRun,
                   epDelivered, episodes, allGood, nInit, nAlert>>

\* Mutant of EmailA_Cond: with bad air the startup branch is skipped.
EmailA_Cond_SkipWhenBad(E) ==
    /\ pc = "A_cond"
    /\ is_bad_air' = IsBadAir(gas_status, dust_status)
    /\ IF initial_email_sent \/ IsBadAir(gas_status, dust_status)
       THEN pc' = "B_cond" /\ tickConn' = tickConn
       ELSE \E c \in E.conn :
              /\ tickConn' = tickConn \cup {c}
              /\ pc' = IF c THEN "A_disp" ELSE "B_cond"
    /\ UNCHANGED cal
    /\ UNCHANGED <<initial_email_sent, alert_email_sent, temp, hum, led_power,
                   adc_value, dust_density, dust_status, ppm, gas_status,
                   wifi_status, err, ticks, tickReports, tickCleared, badRun,
                   epDelivered, episodes, allGood, nInit, nAlert>>

\* main.py:348-351: is_bad_air and the test of branch A.  wlan.isconnected()
\* is only called when initial_email_sent is false (short-circuit).
EmailA_Cond(E) ==
    /\ pc = "A_cond"
    /\ is_bad_air' = IsBadAir(gas_status, dust_status)
    /\ IF initial_email_sent
       THEN pc' = "B_cond" /\ tickConn' = tickConn
       ELSE \E c \in E.conn :
              /\ tickConn' = tickConn \cup {c}
              /\ pc' = IF c THEN "A_disp" ELSE "B_cond"
    /\ UNCHANGED cal
    /\ UNCHANGED <<initial_email_sent, alert_email_sent, temp, hum, led_power,
                   adc_value, dust_density, dust_status, ppm, gas_status,
                   wifi_status, err, ticks, tickReports, tickCleared, badRun,
                   epDelivered, episodes, allGood, nInit, nAlert>>

\* main.py:352: display_sending_email before the initial report
EmailA_Disp(E) ==
    /\ pc = "A_disp"
    /\ \E ok \in E.disp :
         IF ok THEN pc' = "A_send" /\ err' = err ELSE Raise("OSError")
    /\ UNCHANGED cal
    /\ UNCHANGED <<initial_email_sent, alert_email_sent, temp, hum, led_power,
                   adc_value, dust_density, dust_status, ppm, gas_status,
                   wifi_status, is_bad_air, obs>>

\* main.py:353-359: the InitialReport is attempted; the flag follows the result
EmailA_Send(E) ==
    /\ pc = "A_send"
    /\ tickReports' = Append(tickReports, "Initial")
    /\ nInit' = SatInc(nInit, E)
    /\ \E delivered \in E.send :
         initial_email_sent' = IF delivered THEN TRUE ELSE initial_email_sent
    /\ pc' = "B_cond"
    /\ UNCHANGED cal
    /\ UNCHANGED <<alert_email_sent, temp, hum, led_power, adc_value,
                   dust_density, dust_status, ppm, gas_status, wifi_status,
                   is_bad_air, err, ticks, tickCleared, tickConn, badRun,
                   epDelivered, episodes, allGood, nAlert>>

\* Mutant of EmailB_Cond: branch B does not test alert_email_sent.
EmailB_Cond_NoFlagTest(E) ==
    /\ pc = "B_cond"
    /\ IF is_bad_air
       THEN /\ \E c \in E.conn :
                 /\ tickConn' = tickConn \cup {c}
                 /\ pc' = IF c THEN "B_disp" ELSE "sleep"
            /\ UNCHANGED <<alert_email_sent, tickCleared>>
       ELSE /\ IF alert_email_sent
               THEN alert_email_sent' = FALSE /\ tickCleared' = TRUE
               ELSE UNCHANGED <<alert_email_sent, tickCleared>>
            /\ pc' = "sleep"
            /\ tickConn' = tickConn
    /\ UNCHANGED cal
    /\ UNCHANGED <<initial_email_sent, temp, hum, led_power, adc_value,
                   dust_density, dust_status, ppm, gas_status, wifi_status,
                   is_bad_air, err, ticks, tickReports, badRun, epDelivered,
                   episodes, allGood, nInit, nAlert>>

\* Mutant of EmailB_Cond: the recovery branch C goes on to send a report.
EmailB_Cond_NotifyRecovery(E) ==
    /\ pc = "B_cond"
    /\ IF is_bad_air /\ ~alert_email_sent
       THEN /\ \E c \in E.conn :
                 /\ tickConn' = tickConn \cup {c}
                 /\ pc' = IF c THEN "B_disp" ELSE "sleep"
            /\ UNCHANGED <<alert_email_sent, tickCleared>>
       ELSE /\ IF ~is_bad_air /\ alert_email_sent
               THEN /\ alert_email_sent' = FALSE /\ tickCleared' = TRUE
                    /\ pc' = "B_disp"
               ELSE /\ UNCHANGED <<alert_email_sent, tickCleared>>
                    /\ pc' = "sleep"
            /\ tickConn' = tickConn
    /\ UNCHANGED cal
    /\ UNCHANGED <<initial_email_sent, temp, hum, led_power, adc_value,
                   dust_density, dust_status, ppm, gas_status, wifi_status,
                   is_bad_air, err, ticks, tickReports, badRun, epDelivered,
                   episodes, allGood, nInit, nAlert>>

\* main.py:362 and 375-377: the test of branch B and, when it fails, branch C
\* (elif).  wlan.isconnected() is only called when is_bad_air and not
\* alert_email_sent.
EmailB_Cond(E) ==
    /\ pc = "B_cond"
    /\ IF is_bad_air /\ ~alert_email_sent
       THEN /\ \E c \in E.conn :
                 /\ tickConn' = tickConn \cup {c}
                 /\ pc' = IF c THEN "B_disp" ELSE "sleep"
            /\ UNCHANGED <<alert_email_sent, tickCleared>>
       ELSE /\ IF ~is_bad_air /\ alert_email_sent
               THEN alert_email_sent' = FALSE /\ tickCleared' = TRUE
               ELSE UNCHANGED <<alert_email_sent, tickCleared>>
            /\ pc' = "sleep"
            /\ tickConn' = tickConn
    /\ UNCHANGED cal
    /\ UNCHANGED <<initial_email_sent, temp, hum, led_power, adc_value,
                   dust_density, dust_status, ppm, gas_status, wifi_status,
                   is_bad_air, err, ticks, tickReports, badRun, epDelivered,
                   episodes, allGood, nInit, nAlert>>

\* main.py:363: display_sending_email before the alert
EmailB_Disp(E) ==
    /\ pc = "B_disp"
    /\ \E ok \in E.disp :
         IF ok THEN pc' = "B_send" /\ err' = err ELSE Raise("OSError")
    /\ UNCHANGED cal
    /\ UNCHANGED <<initial_email_sent, alert_email_sent, temp, hum, led_power,
                   adc_value, dust_density, dust_status, ppm, gas_status,
                   wifi_status, is_bad_air, obs>>

\* Mutant of EmailB_Send: a failed alert is retried at once, in the same tick.
EmailB_Send_RetryNow(E) ==
    /\ pc = "B_send"
    /\ tickReports' = Append(tickReports, "Alert")
    /\ nAlert' = SatInc(nAlert, E)
    /\ \E delivered \in E.send :
         /\ alert_email_sent' = IF delivered THEN TRUE ELSE alert_email_sent
         /\ epDelivered' = IF delivered THEN epDelivered + 1 ELSE epDelivered
         /\ pc' = IF delivered THEN "sleep" ELSE "B_send"
    /\ UNCHANGED cal
    /\ UNCHANGED <<initial_email_sent, temp, hum, led_power, adc_value,
                   dust_density, dust_status, ppm, gas_status, wifi_status,
                   is_bad_air, err, ticks, tickCleared, tickConn, badRun,
                   episodes, allGood, nInit>>

\* main.py:364-372: the AlertReport is attempted; the flag follows the result
EmailB_Send(E) ==
    /\ pc = "B_send"
    /\ tickReports' = Append(tickReports, "Alert")
    /\ nAlert' = SatInc(nAlert, E)
    /\ \E delivered \in E.send :
         /\ alert_email_sent' = IF delivered THEN TRUE ELSE alert_email_sent
         /\ epDelivered' = IF delivered THEN epDelivered + 1 ELSE epDelivered
    /\ pc' = "sleep"
    /\ UNCHANGED cal
    /\ UNCHANGED <<initial_email_sent, temp, hum, led_power, adc_value,
                   dust_density, dust_status, ppm, gas_status, wifi_status,
                   is_bad_air, err, ticks, tickCleared, tickConn, badRun,
                   episodes, allGood, nInit>>

\* Mutant of MainLoopSleep: the alert flag decays with the tick period.
MainLoopSleep_Decay ==
    /\ pc = "sleep"
    /\ pc' = "top"
    /\ alert_email_sent' = FALSE
    /\ UNCHANGED cal
    /\ UNCHANGED <<initial_email_sent, temp, hum, led_power,
                   adc_value, dust_density, dust_status, ppm, gas_status,
                   wifi_status, is_bad_air, err, obs>>

\* main.py:379: the tick period, then the next iteration
MainLoopSleep ==
    /\ pc = "sleep"
    /\ pc' = "top"
    /\ UNCHANGED cal
    /\ UNCHANGED <<initial_email_sent, alert_email_sent, temp, hum, led_power,
                   adc_value, dust_density, dust_status, ppm, gas_status,
                   wifi_status, is_bad_air, err, obs>>

\* Mutant of MainLoopExcept: the handler lets the fault end the program.
MainLoopExcept_Reraise ==
    /\ pc = "except"
    /\ pc' = "halted"
    /\ UNCHANGED cal
    /\ UNCHANGED <<initial_email_sent, alert_email_sent, temp, hum, led_power,
                   adc_value, dust_density, dust_status, ppm, gas_status,
                   wifi_status, is_bad_air, err, obs>>

\* main.py:381-383: the fault is logged, back-off, then the next iteration
MainLoopExcept ==
    /\ pc = "except"
    /\ pc' = "top"
    /\ UNCHANGED cal
    /\ UNCHANGED <<initial_email_sent, alert_email_sent, temp, hum, led_power,
                   adc_value, dust_density, dust_status, ppm, gas_status,
                   wifi_status, is_bad_air, err, obs>>

Step(E) ==
    \/ ReadDHT(E)
    \/ LedOn
    \/ AdcRead(E)
    \/ LedOff
    \/ ReadGas(E)
    \/ Display(E)
    \/ EmailA_Cond(E)
    \/ EmailA_Disp(E)
    \/ EmailA_Send(E)
    \/ EmailB_Cond(E)
    \/ EmailB_Disp(E)
    \/ EmailB_Send(E)
    \/ MainLoopSleep
    \/ MainLoopExcept

Next == Step(EnvAll)
Spec == Init /\ [][Next]_vars

\* connectivity always up and every delivery confirmed
NextUp == Step(EnvUp)
SpecUp == Init /\ [][NextUp]_vars

\* the transport fails on every call
NextFail == Step(EnvFail)
SpecFail == Init /\ [][NextFail]_vars

\* The loop without the cut: it runs for ever, and the run-history counters
\* stop at LiveTicks.  The program is
\* sequential and every statement returns (the sleeps are finite, send_email
\* returns at the transport's timeout), so the statement the loop stands at
\* is eventually executed.
EnvLive == [EnvAll EXCEPT !.gas = {0, 2780, 2983}, !.dust = {720, 1803},
                         !.horizon = LiveTicks, !.cut = FALSE]
NextLive == Step(EnvLive)
Fairness(E) ==
    /\ WF_vars(ReadDHT(E)) /\ WF_vars(LedOn) /\ WF_vars(AdcRead(E))
    /\ WF_vars(LedOff) /\ WF_vars(ReadGas(E)) /\ WF_vars(Display(E))
    /\ WF_vars(EmailA_Cond(E)) /\ WF_vars(EmailA_Disp(E))
    /\ WF_vars(EmailA_Send(E)) /\ WF_vars(EmailB_Cond(E))
    /\ WF_vars(EmailB_Disp(E)) /\ WF_vars(EmailB_Send(E))
    /\ WF_vars(MainLoopSleep) /\ WF_vars(MainLoopExcept)
LiveSpec == Init /\ [][NextLive]_vars /\ Fairness(EnvLive)

\* the same loop with connectivity always up and every delivery confirmed
EnvLiveUp == [EnvLive EXCEPT !.conn = {TRUE}, !.send = {TRUE}]
NextLiveUp == Step(EnvLiveUp)
LiveUpSpec == Init /\ [][NextLiveUp]_vars /\ Fairness(EnvLiveUp)

----------------------------------------------------------------------------
(* The classifiers on their own, main.py:212-221 and 245-252: the inputs   *)
(* are drawn at Init, in ten-thousandths, and each classifier is applied.  *)

PpmInputs == {-10000, 0, 972708, 7999999, 8000000, 8000001, 10000000,
              14999999, 15000000, 15000001, 20000000}
DensityInputs == {0, 1499, 1500, 1501, 3000, 4999, 5000, 5001}

ClassInit ==
    /\ pc = "classify"
    /\ ppm \in {Norm(k, 10000) : k \in PpmInputs}
    /\ dust_density \in {Norm(k, 10000) : k \in DensityInputs}
    /\ gas_status = "unset" /\ dust_status = "unset"
    /\ initial_email_sent = FALSE /\ alert_email_sent = FALSE
    /\ temp = 0 /\ hum = 0 /\ led_power = 1 /\ adc_value = 0
    /\ wifi_status = "unset" /\ is_bad_air = FALSE /\ err = "none"
    /\ ticks = 0 /\ tickReports = <<>> /\ tickCleared = FALSE /\ tickConn = {}
    /\ badRun = FALSE /\ epDelivered = 0 /\ episodes = 0 /\ allGood = TRUE
    /\ nInit = 0 /\ nAlert = 0
    /\ r0_clean_air = R0_CLEAN_AIR
    /\ r0_calibration_complete = R0_CALIBRATION_COMPLETE
    /\ Rs_arg = Zero

ClassifyGas ==
    /\ pc = "classify" /\ gas_status = "unset"
    /\ gas_status' = classify_gas_quality(ppm)
    /\ UNCHANGED cal
    /\ UNCHANGED <<pc, initial_email_sent, alert_email_sent, temp, hum,
                   led_power, adc_value, dust_density, dust_status, ppm,
                   wifi_status, is_bad_air, err, obs>>

ClassifyDust ==
    /\ pc = "classify" /\ dust_status = "unset"
    /\ dust_status' = classify_dust_quality(dust_density)
    /\ UNCHANGED cal
    /\ UNCHANGED <<pc, initial_email_sent, alert_email_sent, temp, hum,
                   led_power, adc_value, dust_density, ppm, gas_status,
                   wifi_status, is_bad_air, err, obs>>

ClassNext == ClassifyGas \/ ClassifyDust
ClassSpec == ClassInit /\ [][ClassNext]_vars

\* the order of the levels, main.py:214-221 and 247-252
GasLevel(s) == CASE s = "GOOD" -> 0 [] s = "MODERATE" -> 1 [] s = "BAD" -> 2
DustLevel(s) ==
    CASE s = "CLEAN" -> 0 [] s = "DUSTY/MODERATE" -> 1 [] s = "SMOKE/CRITICAL" -> 2

\* a rational that is a whole number of ten-thousandths, as that number
TenThousandths(x) == x[1] * (10000 \div x[2])

----------------------------------------------------------------------------
(* One call of read_dust_sensor followed by the classification, main.py     *)
(* 325-326, for every raw code of the 12-bit ADC: the state is that of the  *)
(* first call, after a successful DHT11 read.                               *)

EnvDust == [EnvAll EXCEPT !.dust = 0..ADC_MAX]

DustInit ==
    /\ pc = "dust_on"
    /\ initial_email_sent = FALSE /\ alert_email_sent = FALSE
    /\ temp \in TempVals /\ hum \in HumVals
    /\ led_power = 1 /\ adc_value = 0
    /\ dust_density = Zero /\ dust_status = "unset"
    /\ ppm = Zero /\ gas_status = "unset"
    /\ wifi_status = "unset" /\ is_bad_air = FALSE /\ err = "none"
    /\ ticks = 1 /\ tickReports = <<>> /\ tickCleared = FALSE /\ tickConn = {}
    /\ badRun = FALSE /\ epDelivered = 0 /\ episodes = 0 /\ allGood = TRUE
    /\ nInit = 0 /\ nAlert = 0
    /\ r0_clean_air = R0_CLEAN_AIR
    /\ r0_calibration_complete = R0_CALIBRATION_COMPLETE
    /\ Rs_arg = Zero

DustNext == LedOn \/ AdcRead(EnvDust) \/ LedOff
DustSpec == DustInit /\ [][DustNext]_vars

----------------------------------------------------------------------------
(* get_mq135_ppm on its own, main.py:233-243: the argument and the two     *)
(* calibration globals are drawn at Init and the function is called once.  *)

\* sensor resistances: those of the sampled raw codes (0 among them) and two
\* negative values
RsInputs == {calculate_Rs(r) : r \in GasCodes} \cup {<<-5, 2>>, <<-419, 40>>}
R0Inputs == {<<-10, 1>>, Zero, R0_CLEAN_AIR}

PpmInit ==
    /\ pc = "ppm_call"
    /\ Rs_arg \in RsInputs
    /\ r0_clean_air \in R0Inputs
    /\ r0_calibration_complete \in BOOLEAN
    /\ initial_email_sent = FALSE /\ alert_email_sent = FALSE
    /\ temp = 0 /\ hum = 0 /\ led_power = 1 /\ adc_value = 0
    /\ dust_density = Zero /\ dust_status = "unset"
    /\ ppm = Zero /\ gas_status = "unset"
    /\ wifi_status = "unset" /\ is_bad_air = FALSE /\ err = "none"
    /\ ticks = 0 /\ tickReports = <<>> /\ tickCleared = FALSE /\ tickConn = {}
    /\ badRun = FALSE /\ epDelivered = 0 /\ episodes = 0 /\ allGood = TRUE
    /\ nInit = 0 /\ nAlert = 0

CallGetPpm ==
    /\ pc = "ppm_call"
    /\ LET r == get_mq135_ppm(Rs_arg)
       IN  IF r.ok THEN ppm' = r.val /\ pc' = "ppm_ret" /\ err' = err
           ELSE ppm' = ppm /\ Raise("ValueError")
    /\ UNCHANGED cal
    /\ UNCHANGED <<initial_email_sent, alert_email_sent, temp, hum, led_power,
                   adc_value, dust_density, dust_status, gas_status,
                   wifi_status, is_bad_air, obs>>

PpmNext == CallGetPpm
PpmSpec == PpmInit /\ [][PpmNext]_vars

----------------------------------------------------------------------------
(* Claims *)

TickOver == pc \in {"sleep", "except"}

\* C1 (as stated): in one tick at most one outbound report is attempted; an
\* InitialReport attempted in a tick excludes an AlertReport in that tick.
C1_OneReportPerTick == Len(tickReports) <= 1

\* C1 (amended): in one tick at most one InitialReport and at most one
\* AlertReport are attempted, the InitialReport first; both are attempted in
\* the same tick only when the air is bad.
C1_AtMostOneOfEachPerTick ==
    /\ tickReports \in {<<>>, <<"Initial">>, <<"Alert">>, <<"Initial", "Alert">>}
    /\ Len(tickReports) = 2 => is_bad_air

\* C1 witness: a tick in which both reports have been attempted
C1_BothInOneTick == tickReports = <<"Initial", "Alert">> /\ pc = "sleep"

\* C2: within one bad-air episode at most one AlertReport is delivered, and
\* once one has been delivered no AlertReport is attempted (the loop is not
\* in branch B) before a tick without bad air.
C2_OneAlertPerEpisode ==
    /\ epDelivered <= 1
    /\ pc \in {"B_disp", "B_send"} => epDelivered = 0

\* C2 witness: a later bad-air tick of an episode whose alert was delivered
\* in an earlier tick ends without any report
C2_SecondBadTickSilent ==
    /\ pc = "sleep" /\ is_bad_air /\ epDelivered = 1 /\ tickReports = <<>>
    /\ initial_email_sent

\* C3: initial_email_sent is never reset once true, and once it is true the
\* loop never enters branch A (no further InitialReport is attempted).
C3_InitialSentStable ==
    [][initial_email_sent =>
         (initial_email_sent' /\ pc' \notin {"A_disp", "A_send"})]_vars

\* C3 witness: a tick fault is caught after the initial report was delivered
C3_SentThenFault == initial_email_sent /\ pc = "except" /\ nInit = 1

\* C4 (as stated): with connectivity always up and every delivery confirmed,
\* at the end of every tick the number of AlertReports equals the number of
\* bad-air episodes begun.
C4_AlertsEqualEpisodes == TickOver => nAlert = episodes

\* C5 (as stated): with connectivity always up and every delivery confirmed,
\* as long as every tick is classified GOOD/CLEAN, from the end of the first
\* tick on exactly one InitialReport and no AlertReport has been emitted.
C5_ExactlyOneInitialReport ==
    (TickOver /\ allGood /\ gas_status = "GOOD" /\ dust_status = "CLEAN")
        => (nInit = 1 /\ nAlert = 0)

\* C6 (as stated): when the transport always fails, initial_email_sent stays
\* false and every tick that found connectivity up has attempted an
\* InitialReport.
C6_RetryEveryConnectedTick ==
    /\ ~initial_email_sent
    /\ (TickOver /\ tickConn = {TRUE}) => tickReports # <<>>

\* C7: the control loop never terminates: every caught fault is followed by
\* a new iteration, and from every state a further iteration begins.
C7_LoopNeverTerminates ==
    /\ (pc = "except") ~> (pc = "top")
    /\ []<>(pc = "top") /\ []<>(pc # "top")

\* C7 witness: a display fault caught at the tick boundary after the initial
\* report went out
C7_FaultCaught == pc = "except" /\ err = "OSError" /\ initial_email_sent

\* C8 (as stated): in a tick that clears alert_email_sent no outbound report
\* of any kind is attempted.
C8_SilentRecovery == tickCleared => tickReports = <<>>

\* C8 (amended): in a tick that clears alert_email_sent no AlertReport is
\* attempted; the only report such a tick may attempt is the InitialReport.
C8_NoAlertOnRecovery == tickCleared => tickReports \in {<<>>, <<"Initial">>}

\* C8 witness: a tick that cleared the flag after attempting the InitialReport
C8_RecoveryWithInitial == tickCleared /\ tickReports = <<"Initial">>

\* C9 (as stated): the gas pipeline never faults and yields gasPpm >= 0 for
\* every raw code.
C9_GasPipelineTotal == err # "ValueError" /\ RLeq(Zero, ppm)

\* C10: classify_gas_quality is GOOD iff ppm <= 800, MODERATE iff
\* 800 < ppm <= 1500, BAD iff ppm > 1500; classify_dust_quality is CLEAN iff
\* d < 0.15, DUSTY/MODERATE iff 0.15 <= d < 0.50, SMOKE/CRITICAL iff d >= 0.50.
C10_ClassifierThresholds ==
    LET p == TenThousandths(ppm)
        d == TenThousandths(dust_density)
    IN  /\ gas_status # "unset" =>
             /\ gas_status = "GOOD" <=> p <= 8000000
             /\ gas_status = "MODERATE" <=> (8000000 < p /\ p <= 15000000)
             /\ gas_status = "BAD" <=> p > 15000000
        /\ dust_status # "unset" =>
             /\ dust_status = "CLEAN" <=> d < 1500
             /\ dust_status = "DUSTY/MODERATE" <=> (1500 <= d /\ d < 5000)
             /\ dust_status = "SMOKE/CRITICAL" <=> d >= 5000

\* C10 witness: the boundary inputs 1500 ppm and 0.15 mg/m^3 classified
C10_BoundaryClassified ==
    /\ ppm = <<1500, 1>> /\ gas_status = "MODERATE"
    /\ dust_density = <<3, 20>> /\ dust_status = "DUSTY/MODERATE"

\* C11: both classifiers are total and monotonic: the classified input has
\* exactly one of the three levels, and against every other input q the
\* levels are ordered as the inputs are (GOOD < MODERATE < BAD and
\* CLEAN < DUSTY/MODERATE < SMOKE/CRITICAL).
C11_ClassifiersTotalMonotonic ==
    /\ gas_status # "unset" =>
         /\ gas_status \in {"GOOD", "MODERATE", "BAD"}
         /\ \A k \in PpmInputs :
              LET q == Norm(k, 10000)
                  lq == GasLevel(classify_gas_quality(q))
              IN  /\ k <= TenThousandths(ppm) => lq <= GasLevel(gas_status)
                  /\ TenThousandths(ppm) <= k => GasLevel(gas_status) <= lq
    /\ dust_status # "unset" =>
         /\ dust_status \in {"CLEAN", "DUSTY/MODERATE", "SMOKE/CRITICAL"}
         /\ \A k \in DensityInputs :
              LET q == Norm(k, 10000)
                  lq == DustLevel(classify_dust_quality(q))
              IN  /\ k <= TenThousandths(dust_density) =>
                         lq <= DustLevel(dust_status)
                  /\ TenThousandths(dust_density) <= k =>
                         DustLevel(dust_status) <= lq

\* C11 witness: an input of the highest level of each classifier classified,
\* so that inputs of all three levels lie below it
C11_TopLevelsClassified ==
    /\ ppm = <<15000001, 10000>> /\ gas_status = "BAD"
    /\ dust_density = <<5001, 10000>> /\ dust_status = "SMOKE/CRITICAL"

\* C12: for every raw code the density returned by read_dust_sensor is not
\* negative: it is exactly 0 when 0.172 * voltage - 0.0999 is negative and
\* that value otherwise; a density of 0 is classified CLEAN.  With
\* voltage = raw * 3.3 / 4095 the linear value is
\* (5676 * raw - 4090905) / 40950000.
C12_DensityClamped ==
    LET lin == 5676 * adc_value - 4090905
    IN  pc = "gas" =>
          /\ RLeq(Zero, dust_density)
          /\ lin < 0 => dust_density = Zero
          /\ lin >= 0 => dust_density = Norm(lin, 40950000)
          /\ dust_density = Zero => dust_status = "CLEAN"

\* C12 witness: the largest raw code whose linear value is negative, clamped
C12_LastClampedCode ==
    /\ pc = "gas" /\ adc_value = 720
    /\ dust_density = Zero /\ dust_status = "CLEAN"

\* C13: whenever calibration is incomplete or R0 <= 0, get_mq135_ppm returns
\* exactly 0 for every Rs, without a fault.
C13_UncalibratedGivesZero ==
    (pc # "ppm_call" /\ (~r0_calibration_complete \/ RLeq(r0_clean_air, Zero)))
        => (pc = "ppm_ret" /\ ppm = Zero /\ err = "none")

\* C13 witness: the call has returned 0 for Rs = 0 with a positive R0 and
\* calibration incomplete
C13_ZeroRsUncalibrated ==
    /\ pc = "ppm_ret" /\ ppm = Zero
    /\ Rs_arg = Zero /\ r0_clean_air = R0_CLEAN_AIR /\ ~r0_calibration_complete

\* C14 (as stated): a fault of the temperature/humidity read does not abort
\* the tick: it never reaches the handler of the loop, and the tick that had
\* it goes on with temp = hum = 0.
C14_DhtFaultDoesNotAbort ==
    /\ ~(pc = "except" /\ err = "Exception")
    /\ (pc \notin {"top", "except"} /\ temp \notin TempVals) =>
           (temp = 0 /\ hum = 0)

\* C15 (as stated): with connectivity up on every tick, every delivery
\* confirmed and the ticks running for ever, initial_email_sent eventually
\* becomes true.
C15_InitialEventuallySent == <>initial_email_sent

\* C16: frame of the notification flags.  initial_email_sent changes only
\* where the InitialReport is delivered (it becomes true at main.py:356);
\* alert_email_sent becomes true only where the AlertReport is delivered
\* (main.py:369) and becomes false only in branch C with is_bad_air false;
\* no other step of a tick, the tick period included, changes a flag.  A
\* report is attempted only after wlan.isconnected() returned true in the
\* tick, so a tick in which connectivity is down attempts no report and
\* sets no flag.
C16_FlagFrame ==
    /\ [](pc \in {"A_disp", "A_send", "B_disp", "B_send"} => TRUE \in tickConn)
    /\ [](TRUE \notin tickConn => tickReports = <<>>)
    /\ [][(initial_email_sent' # initial_email_sent) =>
             (pc = "A_send" /\ initial_email_sent' /\ TRUE \in tickConn)]_vars
    /\ [][(alert_email_sent' /\ ~alert_email_sent) =>
             (pc = "B_send" /\ TRUE \in tickConn
                /\ epDelivered' = epDelivered + 1)]_vars
    /\ [][(alert_email_sent /\ ~alert_email_sent') =>
             (pc = "B_cond" /\ ~is_bad_air /\ tickCleared')]_vars

\* C16 witness: a bad-air tick that found connectivity down at all three
\* polls has ended with no report attempted and both flags still false
C16_OfflineBadTick ==
    /\ pc = "sleep" /\ tickConn = {FALSE} /\ wifi_status = "OFF"
    /\ is_bad_air /\ tickReports = <<>>
    /\ ~initial_email_sent /\ ~alert_email_sent

\* C17: emitter pulse protocol.  A call of read_dust_sensor goes through
\* emitter on (with the settle wait), one ADC conversion, emitter off (with
\* the rest wait), in this order and each once; the conversion is taken
\* with the emitter on; the emitter is on only between the first and the
\* third of these steps, so it is off whenever the function is not
\* executing.
C17_EmitterPulse ==
    /\ [](led_power = 0 <=> pc \in {"dust_read", "dust_off"})
    /\ [][pc = "dust_on" => (pc' = "dust_read" /\ led_power' = 0)]_vars
    /\ [][pc = "dust_read" =>
             (pc' = "dust_off" /\ led_power = 0 /\ led_power' = 0)]_vars
    /\ [][pc = "dust_off" =>
             (pc' = "gas" /\ led_power' = 1 /\ adc_value' = adc_value)]_vars
    /\ [][pc' \in {"dust_read", "dust_off"} =>
             pc \in {"dust_on", "dust_read"}]_vars

\* C17 witness: in the second tick the conversion has been taken (full
\* scale) with the emitter still on
C17_ConversionTaken ==
    pc = "dust_off" /\ led_power = 0 /\ adc_value = 4095 /\ ticks = 2

\* C18 (as stated): the display has no feedback to the core: a failing
\* display call never ends the tick, so the tick that had it still reaches
\* the end of the e-mail logic.
C18_DisplayNoFeedback == ~(pc = "except" /\ err = "OSError")

\* C19 (as stated): alert_email_sent implies initial_email_sent, and no
\* AlertReport is attempted while the initial report is undelivered.
C19_AlertImpliesInitial ==
    /\ alert_email_sent => initial_email_sent
    /\ pc \in {"B_disp", "B_send"} => initial_email_sent

\* C19 (amended): an AlertReport is attempted while the initial report is
\* undelivered only in a tick that attempted the InitialReport first, without
\* a confirmed delivery, or that found connectivity down when the startup
\* branch tested it.
C19_AlertAfterInitialAttempt ==
    (pc \in {"B_disp", "B_send"} /\ ~initial_email_sent) =>
        (tickReports = <<"Initial">> \/ FALSE \in tickConn)

\* C19 witness: a bad-air tick whose InitialReport failed and whose
\* AlertReport was delivered, with connectivity up at every poll
C19_AlertBeforeInitial ==
    /\ pc = "sleep" /\ tickReports = <<"Initial", "Alert">>
    /\ alert_email_sent /\ ~initial_email_sent /\ tickConn = {TRUE}

====
